---- MODULE Spec2Model ----
(***************************************************************************)
(* A model of the I2C bus handle of theckman/go-i2c.  The repository has   *)
(* two handle types with the same method set: Device (i2ch_cgo.go) and I2C *)
(* (i2c.go).  A handle owns an os.File bound to one peripheral; the model  *)
(* keeps the handle's fields, the number of open bus descriptors, the      *)
(* peripheral's register contents, and the record of the last method call  *)
(* (its arguments, the debug hook invocations and file-handle calls it     *)
(* made, in order, and what it returned), and the position of the calling  *)
(* program.                                                                *)
(***************************************************************************)
EXTENDS Integers, Sequences, FiniteSets, TLC

VARIABLES dev, fds, mem, last, caller

vars == <<dev, fds, mem, last, caller>>

---------------------------------------------------------------------------
(* Bounds of the model. *)

MaxBus == 1          \* bus numbers 1..MaxBus
MaxReg == 1          \* register bytes 1..MaxReg
MaxShort == 1        \* short payload lengths 0..MaxShort
MaxOver == 1         \* payload lengths up to MaxMsgLen + MaxOver
MaxN == 2            \* read lengths 0..MaxN
MaxFds == 1          \* descriptors opened by New, leaked ones included

(* Program constants. *)

MaxMsgLen == 512     \* Device.Write: n > 512
MaxRegMsgLen == 511  \* Device.WriteReg: n > 511

Kinds == {"Device", "I2C"}
Buses == 1..MaxBus
Addrs == {39}
Regs == 1..MaxReg

(* Data bytes and 16-bit words: the boundary values of each byte and of the sign bit. *)
DataBytes == {0, 1, 128, 255}
Words == {0, 1, 255, 256, 32767, 32768, 65280, 65535}
SWords == {IF w >= 32768 THEN w - 65536 ELSE w : w \in Words}
Mems == {<<w \div 256, w % 256>> : w \in Words}

Fill(n, b) == [i \in 1..n |-> b]
PayloadLens == (0..MaxShort) \cup (MaxRegMsgLen..(MaxMsgLen + MaxOver))
Payloads == {Fill(n, 255) : n \in PayloadLens}

Nil == "nil"
NoDev == [kind |-> "none", addr |-> 0, bus |-> 0, rc |-> "none"]

---------------------------------------------------------------------------
(* Go's fixed-width integer arithmetic. *)

U16(x) == x % 65536

S16(x) == IF x % 65536 >= 32768 THEN (x % 65536) - 65536 ELSE x % 65536

U8(x) == x % 256

(* a * b on uint16, for a, b in 0..65535, computed in steps that stay within 32 bits. *)
MulU16(a, b) == U16(U16(a * (b \div 256)) * 256 + a * (b % 256))

---------------------------------------------------------------------------
(* The file handle rc and the peripheral behind it.  A trace is the        *)
(* sequence of debug hook invocations and rc.Write / rc.Read calls made by *)
(* one method call.  The i2c-dev character device transfers a whole        *)
(* message or fails; wok / rok say whether the transfer succeeds.          *)

Debugf == [ev |-> "debugf", buf |-> <<>>, len |-> 0, ok |-> TRUE]

R(n, val, buf, err, tr) == [n |-> n, val |-> val, buf |-> buf, err |-> err, tr |-> tr]

(* The peripheral keeps the last two data bytes written after a register byte. *)
LastTwo(s) == SubSeq(s, Len(s) - 1, Len(s))

Store(m, p) == IF Len(p) >= 2 THEN LastTwo(m \o Tail(p)) ELSE m

(* A read returns the stored bytes, repeating them for longer reads. *)
Resp(m, n) == [i \in 1..n |-> m[((i - 1) % 2) + 1]]

RECURSIVE After(_, _)
After(m, tr) ==
    IF tr = <<>> THEN m
    ELSE After(IF Head(tr).ev = "write" /\ Head(tr).ok THEN Store(m, Head(tr).buf) ELSE m,
               Tail(tr))

rcWrite(p, wok) ==
    R(IF wok THEN Len(p) ELSE 0, 0, <<>>, IF wok THEN Nil ELSE "EIO",
      <<[ev |-> "write", buf |-> p, len |-> Len(p), ok |-> wok]>>)

rcRead(n, rok, m) ==
    R(IF rok THEN n ELSE 0, 0, IF rok THEN Resp(m, n) ELSE Fill(n, 0),
      IF rok THEN Nil ELSE "EIO",
      <<[ev |-> "read", buf |-> IF rok THEN Resp(m, n) ELSE <<>>, len |-> n, ok |-> rok]>>)

---------------------------------------------------------------------------
(* Raw transfers. *)

DeviceWrite(p, wok) ==
    IF Len(p) > MaxMsgLen THEN R(0, 0, <<>>, "maxlen", <<>>)
    ELSE IF Len(p) = 0 THEN R(0, 0, <<>>, "minlen", <<>>)
    ELSE LET r == rcWrite(p, wok)
         IN  R(r.n, 0, <<>>, r.err, <<Debugf>> \o r.tr)

I2CWrite(p, wok) ==
    LET r == rcWrite(p, wok)
    IN  R(r.n, 0, <<>>, r.err, <<Debugf>> \o r.tr)

Write(kind, p, wok) == IF kind = "Device" THEN DeviceWrite(p, wok) ELSE I2CWrite(p, wok)

WriteByte(kind, b, wok) == Write(kind, <<b>>, wok)

DeviceWriteReg(p, reg, wok) ==
    IF Len(p) > MaxRegMsgLen THEN R(0, 0, <<>>, "maxlen", <<>>)
    ELSE IF Len(p) = 0 THEN R(0, 0, <<>>, "minlen", <<>>)
    ELSE LET r == DeviceWrite(<<reg>> \o p, wok)
         IN  R(r.n, 0, <<>>, r.err, <<Debugf>> \o r.tr)

Read_hookfirst(n, rok, m) ==
    LET r == rcRead(n, rok, m)
    IN  R(r.n, 0, r.buf, r.err, <<Debugf>> \o r.tr)

Read(n, rok, m) ==
    LET r == rcRead(n, rok, m)
    IN  IF r.err # Nil THEN R(r.n, 0, r.buf, r.err, r.tr)
        ELSE R(r.n, 0, r.buf, Nil, r.tr \o <<Debugf>>)

---------------------------------------------------------------------------
(* Register reads of a byte string. *)

DeviceReadReg(n, reg, wok, rok, m) ==
    LET w == WriteByte("Device", reg, wok)
    IN  IF w.err # Nil THEN R(0, 0, Fill(n, 0), w.err, <<Debugf>> \o w.tr)
        ELSE LET r == Read(n, rok, After(m, w.tr))
             IN  R(r.n, 0, r.buf, r.err, <<Debugf>> \o w.tr \o r.tr)

I2CReadRegBytes_retry(reg, n, wok, rok, m) ==
    LET w == WriteByte("I2C", reg, wok)
        r == Read(n, rok, After(m, w.tr))
    IN  IF w.err # Nil THEN R(0, 0, <<>>, w.err, <<Debugf>> \o w.tr)
        ELSE IF r.err # Nil
             THEN LET r2 == Read(n, TRUE, After(m, w.tr))
                  IN  R(r2.n, 0, r2.buf, Nil, <<Debugf>> \o w.tr \o r.tr \o r2.tr)
             ELSE R(r.n, 0, r.buf, Nil, <<Debugf>> \o w.tr \o r.tr)

I2CReadRegBytes(reg, n, wok, rok, m) ==
    LET w == WriteByte("I2C", reg, wok)
    IN  IF w.err # Nil THEN R(0, 0, <<>>, w.err, <<Debugf>> \o w.tr)
        ELSE LET r == Read(n, rok, After(m, w.tr))
             IN  IF r.err # Nil THEN R(0, 0, <<>>, r.err, <<Debugf>> \o w.tr \o r.tr)
                 ELSE R(r.n, 0, r.buf, Nil, <<Debugf>> \o w.tr \o r.tr)

---------------------------------------------------------------------------
(* The 16-bit arithmetic of the register helpers, in Go's uint16 / int16.  *)
(* x<<8 is multiplication by 256 and x>>8 is floored division by 256, each *)
(* truncated to the operand's type; & masks the two's-complement bits.     *)

(* w := uint16(buf[0])<<8 + uint16(buf[1]) *)
ComposeU16(b0, b1) == U16(U16(b0 * 256) + b1)

SwapU16_mask(w) == U16(U16(((w \div 256) * 256) * 256) + (w \div 256))

(* w = (w&0xFF)<<8 + w>>8, on uint16 *)
SwapU16(w) == U16(U16((w % 256) * 256) + (w \div 256))

ComposeS16_sext(b0, b1) == S16(S16(b0 * 256) + (IF b1 >= 128 THEN b1 - 256 ELSE b1))

(* w := int16(buf[0])<<8 + int16(buf[1]) *)
ComposeS16(b0, b1) == S16(S16(b0 * 256) + b1)

(* w = (w&0xFF)<<8 + w>>8, on int16: w>>8 is an arithmetic shift *)
SwapS16(w) == S16(S16((U16(w) % 256) * 256) + (w \div 256))

FrameU16BE_swapped(reg, value) ==
    <<reg, U8(value % 256), U8(((value \div 256) * 256) \div 256)>>

(* [3]byte{reg, byte((value & 0xFF00) >> 8), byte(value & 0xFF)} *)
FrameU16BE(reg, value) ==
    <<reg, U8(((value \div 256) * 256) \div 256), U8(value % 256)>>

(* w := (value*0xFF00)>>8 + value<<8, on uint16 *)
MulSwapU16(value) == U16((MulU16(value, 65280) \div 256) + U16(value * 256))

(* [3]byte{reg, byte((uint16(value) & 0xFF00) >> 8), byte(value & 0xFF)} *)
FrameS16BE(reg, value) ==
    <<reg, U8(((U16(value) \div 256) * 256) \div 256), U8(U16(value) % 256)>>

(* w := int16((uint16(value)*0xFF00)>>8) + value<<8, on int16 *)
MulSwapS16(value) == S16(S16(MulU16(U16(value), 65280) \div 256) + S16(value * 256))

---------------------------------------------------------------------------
(* Register helpers; the two handle types have the same code for these.    *)

ReadRegU8(kind, reg, wok, rok, m) ==
    LET w == WriteByte(kind, reg, wok)
    IN  IF w.err # Nil THEN R(0, 0, <<>>, w.err, w.tr)
        ELSE LET r == Read(1, rok, After(m, w.tr))
             IN  IF r.err # Nil THEN R(0, 0, <<>>, r.err, w.tr \o r.tr)
                 ELSE R(0, r.buf[1], <<>>, Nil, w.tr \o r.tr \o <<Debugf>>)

WriteRegU8(kind, reg, value, wok) ==
    LET w == Write(kind, <<reg, value>>, wok)
    IN  IF w.err # Nil THEN R(0, 0, <<>>, w.err, w.tr)
        ELSE R(0, 0, <<>>, Nil, w.tr \o <<Debugf>>)

ReadRegU16BE(kind, reg, wok, rok, m) ==
    LET w == WriteByte(kind, reg, wok)
    IN  IF w.err # Nil THEN R(0, 0, <<>>, w.err, w.tr)
        ELSE LET r == Read(2, rok, After(m, w.tr))
             IN  IF r.err # Nil THEN R(0, 0, <<>>, r.err, w.tr \o r.tr)
                 ELSE R(0, ComposeU16(r.buf[1], r.buf[2]), <<>>, Nil,
                        w.tr \o r.tr \o <<Debugf>>)

ReadRegU16LE(kind, reg, wok, rok, m) ==
    LET r == ReadRegU16BE(kind, reg, wok, rok, m)
    IN  IF r.err # Nil THEN R(0, 0, <<>>, r.err, r.tr)
        ELSE R(0, SwapU16(r.val), <<>>, Nil, r.tr)

ReadRegS16BE(kind, reg, wok, rok, m) ==
    LET w == WriteByte(kind, reg, wok)
    IN  IF w.err # Nil THEN R(0, 0, <<>>, w.err, w.tr)
        ELSE LET r == Read(2, rok, After(m, w.tr))
             IN  IF r.err # Nil THEN R(0, 0, <<>>, r.err, w.tr \o r.tr)
                 ELSE R(0, ComposeS16(r.buf[1], r.buf[2]), <<>>, Nil,
                        w.tr \o r.tr \o <<Debugf>>)

ReadRegS16LE(kind, reg, wok, rok, m) ==
    LET r == ReadRegS16BE(kind, reg, wok, rok, m)
    IN  IF r.err # Nil THEN R(0, 0, <<>>, r.err, r.tr)
        ELSE R(0, SwapS16(r.val), <<>>, Nil, r.tr)

WriteRegU16BE(kind, reg, value, wok) ==
    LET w == Write(kind, FrameU16BE(reg, value), wok)
    IN  IF w.err # Nil THEN R(0, 0, <<>>, w.err, w.tr)
        ELSE R(0, 0, <<>>, Nil, w.tr \o <<Debugf>>)

WriteRegU16LE(kind, reg, value, wok) == WriteRegU16BE(kind, reg, MulSwapU16(value), wok)

WriteRegS16BE(kind, reg, value, wok) ==
    LET w == Write(kind, FrameS16BE(reg, value), wok)
    IN  IF w.err # Nil THEN R(0, 0, <<>>, w.err, w.tr)
        ELSE R(0, 0, <<>>, Nil, w.tr \o <<Debugf>>)

WriteRegS16LE(kind, reg, value, wok) == WriteRegS16BE(kind, reg, MulSwapS16(value), wok)

---------------------------------------------------------------------------
(* Accessors and Close. *)

Bus(d) == d.bus

Addr(d) == d.addr

DeviceClose(d) == [d EXCEPT !.rc = "closed", !.bus = 0, !.addr = 0]

I2CClose(d) == [d EXCEPT !.rc = "closed"]

CloseHandle(d) == IF d.kind = "Device" THEN DeviceClose(d) ELSE I2CClose(d)

---------------------------------------------------------------------------
(* The state machine: one action per method of the handle. *)

Call(op, reg, p, v, len, res) ==
    [op |-> op, reg |-> reg, p |-> p, v |-> v, len |-> len,
     n |-> res.n, val |-> res.val, buf |-> res.buf, err |-> res.err, tr |-> res.tr]

NoCall == Call("none", 0, <<>>, 0, 0, R(0, 0, <<>>, Nil, <<>>))

(* A transfer on a closed file fails. *)
Oks == IF dev.rc = "open" THEN BOOLEAN ELSE {FALSE}

Step(op, reg, p, v, len, res) ==
    /\ last' = Call(op, reg, p, v, len, res)
    /\ mem' = After(mem, res.tr)
    /\ UNCHANGED <<dev, fds, caller>>

(* A caller that makes any call at any time. *)
Free == [pc |-> "free", reg |-> 0, v |-> 0]

Init ==
    /\ dev = NoDev
    /\ fds = 0
    /\ mem \in Mems
    /\ last = NoCall
    /\ caller = Free

(* New / NewI2C: open the bus file, then select the peripheral address. *)
New ==
    /\ dev.rc # "open"
    /\ fds < MaxFds
    /\ \E kind \in Kinds, bus \in Buses, addr \in Addrs, opened \in BOOLEAN, bound \in BOOLEAN :
         /\ opened \/ bound
         /\ dev' = IF opened /\ bound
                   THEN [kind |-> kind, addr |-> addr, bus |-> bus, rc |-> "open"]
                   ELSE NoDev
         /\ fds' = IF opened THEN fds + 1 ELSE fds
         /\ last' = Call("New", 0, <<>>, 0, 0,
                         R(0, 0, <<>>,
                           IF ~opened THEN "ENOENT" ELSE IF ~bound THEN "EINVAL" ELSE Nil,
                           <<>>))
         /\ UNCHANGED <<mem, caller>>

CallWrite ==
    /\ dev # NoDev
    /\ \E p \in Payloads, wok \in Oks :
         Step("Write", 0, p, 0, 0, Write(dev.kind, p, wok))

CallWriteByte ==
    /\ dev # NoDev
    /\ \E b \in DataBytes, wok \in Oks :
         Step("WriteByte", 0, <<b>>, 0, 0, WriteByte(dev.kind, b, wok))

CallWriteReg ==
    /\ dev.kind = "Device"
    /\ \E p \in Payloads, reg \in Regs, wok \in Oks :
         Step("WriteReg", reg, p, 0, 0, DeviceWriteReg(p, reg, wok))

CallRead ==
    /\ dev # NoDev
    /\ \E n \in 0..MaxN, rok \in Oks :
         Step("Read", 0, <<>>, 0, n, Read(n, rok, mem))

CallReadReg ==
    /\ dev.kind = "Device"
    /\ \E n \in 0..MaxN, reg \in Regs, wok \in Oks, rok \in Oks :
         Step("ReadReg", reg, <<>>, 0, n, DeviceReadReg(n, reg, wok, rok, mem))

CallReadRegBytes ==
    /\ dev.kind = "I2C"
    /\ \E n \in 0..MaxN, reg \in Regs, wok \in Oks, rok \in Oks :
         Step("ReadRegBytes", reg, <<>>, 0, n, I2CReadRegBytes(reg, n, wok, rok, mem))

CallClose ==
    /\ dev # NoDev
    /\ \E cok \in Oks :
         /\ dev' = CloseHandle(dev)
         /\ fds' = IF dev.rc = "open" THEN fds - 1 ELSE fds
         /\ last' = Call("Close", 0, <<>>, 0, 0,
                         R(0, 0, <<>>, IF cok THEN Nil ELSE "EIO", <<>>))
         /\ UNCHANGED <<mem, caller>>

CallReadRegU8 ==
    /\ dev # NoDev
    /\ \E reg \in Regs, wok \in Oks, rok \in Oks :
         Step("ReadRegU8", reg, <<>>, 0, 0, ReadRegU8(dev.kind, reg, wok, rok, mem))

CallWriteRegU8 ==
    /\ dev # NoDev
    /\ \E reg \in Regs, value \in DataBytes, wok \in Oks :
         Step("WriteRegU8", reg, <<>>, value, 0, WriteRegU8(dev.kind, reg, value, wok))

CallReadRegU16BE ==
    /\ dev # NoDev
    /\ \E reg \in Regs, wok \in Oks, rok \in Oks :
         Step("ReadRegU16BE", reg, <<>>, 0, 0, ReadRegU16BE(dev.kind, reg, wok, rok, mem))

CallReadRegU16LE ==
    /\ dev # NoDev
    /\ \E reg \in Regs, wok \in Oks, rok \in Oks :
         Step("ReadRegU16LE", reg, <<>>, 0, 0, ReadRegU16LE(dev.kind, reg, wok, rok, mem))

CallReadRegS16BE ==
    /\ dev # NoDev
    /\ \E reg \in Regs, wok \in Oks, rok \in Oks :
         Step("ReadRegS16BE", reg, <<>>, 0, 0, ReadRegS16BE(dev.kind, reg, wok, rok, mem))

CallReadRegS16LE ==
    /\ dev # NoDev
    /\ \E reg \in Regs, wok \in Oks, rok \in Oks :
         Step("ReadRegS16LE", reg, <<>>, 0, 0, ReadRegS16LE(dev.kind, reg, wok, rok, mem))

CallWriteRegU16BE ==
    /\ dev # NoDev
    /\ \E reg \in Regs, value \in Words, wok \in Oks :
         Step("WriteRegU16BE", reg, <<>>, value, 0, WriteRegU16BE(dev.kind, reg, value, wok))

CallWriteRegU16LE ==
    /\ dev # NoDev
    /\ \E reg \in Regs, value \in Words, wok \in Oks :
         Step("WriteRegU16LE", reg, <<>>, value, 0, WriteRegU16LE(dev.kind, reg, value, wok))

CallWriteRegS16BE ==
    /\ dev # NoDev
    /\ \E reg \in Regs, value \in SWords, wok \in Oks :
         Step("WriteRegS16BE", reg, <<>>, value, 0, WriteRegS16BE(dev.kind, reg, value, wok))

CallWriteRegS16LE ==
    /\ dev # NoDev
    /\ \E reg \in Regs, value \in SWords, wok \in Oks :
         Step("WriteRegS16LE", reg, <<>>, value, 0, WriteRegS16LE(dev.kind, reg, value, wok))

Next ==
    \/ New
    \/ CallWrite
    \/ CallWriteByte
    \/ CallWriteReg
    \/ CallRead
    \/ CallReadReg
    \/ CallReadRegBytes
    \/ CallClose
    \/ CallReadRegU8
    \/ CallWriteRegU8
    \/ CallReadRegU16BE
    \/ CallReadRegU16LE
    \/ CallReadRegS16BE
    \/ CallReadRegS16LE
    \/ CallWriteRegU16BE
    \/ CallWriteRegU16LE
    \/ CallWriteRegS16BE
    \/ CallWriteRegS16LE

Spec == Init /\ [][Next]_vars

---------------------------------------------------------------------------
(* A second caller, for the 16-bit helpers over the whole range of a word: *)
(* it holds an open handle on bus 1, picks a register and a word v, and    *)
(* makes one 16-bit read, or writes v big-endian and reads it back.  The   *)
(* peripheral starts with the bytes of the complement of v, so that every  *)
(* 2-byte response occurs and none equals the bytes of v before v is       *)
(* written.                                                                *)

MaxWord == 65535     \* uint16

AllWords == 0..MaxWord

InitWord ==
    /\ \E kind \in Kinds, addr \in Addrs :
         dev = [kind |-> kind, addr |-> addr, bus |-> 1, rc |-> "open"]
    /\ fds = 1
    /\ \E v \in AllWords, reg \in Regs :
         /\ caller = [pc |-> "start", reg |-> reg, v |-> v]
         /\ mem = <<(MaxWord - v) \div 256, (MaxWord - v) % 256>>
    /\ last = NoCall

StepWord(op, v, res, pc) ==
    /\ last' = Call(op, caller.reg, <<>>, v, 0, res)
    /\ mem' = After(mem, res.tr)
    /\ caller' = [caller EXCEPT !.pc = pc]
    /\ UNCHANGED <<dev, fds>>

OneReadRegU16BE ==
    /\ caller.pc = "start"
    /\ \E wok \in Oks, rok \in Oks :
         StepWord("ReadRegU16BE", 0, ReadRegU16BE(dev.kind, caller.reg, wok, rok, mem), "done")

OneReadRegU16LE ==
    /\ caller.pc = "start"
    /\ \E wok \in Oks, rok \in Oks :
         StepWord("ReadRegU16LE", 0, ReadRegU16LE(dev.kind, caller.reg, wok, rok, mem), "done")

OneReadRegS16BE ==
    /\ caller.pc = "start"
    /\ \E wok \in Oks, rok \in Oks :
         StepWord("ReadRegS16BE", 0, ReadRegS16BE(dev.kind, caller.reg, wok, rok, mem), "done")

RoundTripWrite ==
    /\ caller.pc = "start"
    /\ \E wok \in Oks :
         LET res == WriteRegU16BE(dev.kind, caller.reg, caller.v, wok)
         IN  StepWord("WriteRegU16BE", caller.v, res,
                      IF res.err = Nil THEN "written" ELSE "done")

RoundTripRead ==
    /\ caller.pc = "written"
    /\ \E wok \in Oks, rok \in Oks :
         StepWord("ReadRegU16BE", caller.v,
                  ReadRegU16BE(dev.kind, caller.reg, wok, rok, mem), "readback")

NextWord ==
    \/ OneReadRegU16BE
    \/ OneReadRegU16LE
    \/ OneReadRegS16BE
    \/ RoundTripWrite
    \/ RoundTripRead

SpecWord == InitWord /\ [][NextWord]_vars

---------------------------------------------------------------------------
(* Properties of the last call. *)

IsHook(e) == e.ev = "debugf"

IsIO(e) == e.ev # "debugf"

(* The rc.Write / rc.Read calls of a trace, in order. *)
IOs(tr) == SelectSeq(tr, IsIO)

(* The debug hook invocations of a trace. *)
Hooks(tr) == SelectSeq(tr, IsHook)

WriteOf(p, ok) == [ev |-> "write", buf |-> p, len |-> Len(p), ok |-> ok]

Signed(u) == IF u >= 32768 THEN u - 65536 ELSE u

(* C1: Write(p) with len(p) = 0 or len(p) > 512 returns an error and makes *)
(* no OS write; with 1 <= len(p) <= 512 it makes exactly one OS write of p *)
(* and returns len(p) or the OS failure; for Device.Write and I2C.Write.   *)
C1_WriteContract ==
    last.op = "Write" =>
        IF Len(last.p) = 0 \/ Len(last.p) > MaxMsgLen
        THEN last.err # Nil /\ IOs(last.tr) = <<>>
        ELSE /\ IOs(last.tr) = <<WriteOf(last.p, last.err = Nil)>>
             /\ last.err = Nil => last.n = Len(last.p)

(* C2: WriteRegU16LE(reg, v) makes exactly one OS write, of the frame      *)
(* [reg, low byte of v, high byte of v].                                   *)
C2_WriteRegU16LEFrame ==
    last.op = "WriteRegU16LE" =>
        IOs(last.tr) = <<WriteOf(<<last.reg, last.v % 256, last.v \div 256>>, last.err = Nil)>>

(* C3: for a response [b0, b1], ReadRegS16LE returns the signed 16-bit     *)
(* value with the bit pattern (b1 << 8) | b0, also when b0 >= 0x80.        *)
C3_ReadRegS16LEValue ==
    last.op = "ReadRegS16LE" /\ last.err = Nil =>
        LET d == IOs(last.tr)[2].buf
        IN  last.val = Signed(d[2] * 256 + d[1])

(* C4: WriteRegS16LE(reg, v) makes exactly one OS write, of the frame      *)
(* [reg, low byte, high byte] of v's two's-complement representation.      *)
C4_WriteRegS16LEFrame ==
    last.op = "WriteRegS16LE" =>
        IOs(last.tr) =
            <<WriteOf(<<last.reg, U16(last.v) % 256, U16(last.v) \div 256>>, last.err = Nil)>>

(* C5: WriteRegU16BE(reg, v) sends the single frame [reg, high, low], and  *)
(* a ReadRegU16BE(reg) that follows it, against a peripheral that returns  *)
(* the last 2 data bytes written, composes (byte0 << 8) | byte1 and        *)
(* returns v, for every v in 0..0xFFFF.                                    *)
C5_RoundTripU16BE ==
    /\ last.op = "WriteRegU16BE" =>
           IOs(last.tr) =
               <<WriteOf(<<last.reg, last.v \div 256, last.v % 256>>, last.err = Nil)>>
    /\ caller.pc = "readback" /\ last.err = Nil =>
           LET d == IOs(last.tr)[2].buf
           IN  /\ last.val = d[1] * 256 + d[2]
               /\ last.val = caller.v

C5_Witness ==
    /\ caller.pc = "readback"
    /\ last.op = "ReadRegU16BE"
    /\ last.err = Nil
    /\ caller.v = 33023
    /\ last.val = 33023
    /\ mem = <<128, 255>>

(* C6: Close sets the handle's bus number and address to zero whether or   *)
(* not the OS close succeeds, so the accessors return 0 after any Close;   *)
(* for Device.Close and I2C.Close.                                         *)
C6_CloseZeroes ==
    last.op = "Close" => Bus(dev) = 0 /\ Addr(dev) = 0

(* C7: ReadRegBytes / ReadReg first makes exactly one OS write of [reg],   *)
(* then, only if it succeeded, exactly one OS read into an n-byte buffer;  *)
(* on success it returns the bytes read and the count the OS reported; a   *)
(* failed write or read is returned as the error; no OS call is repeated.  *)
C7_ReadRegOrder ==
    last.op \in {"ReadReg", "ReadRegBytes"} =>
        LET io == IOs(last.tr)
        IN  /\ Len(io) \in {1, 2}
            /\ io[1].ev = "write" /\ io[1].buf = <<last.reg>>
            /\ Len(io) = 2 <=> io[1].ok
            /\ Len(io) = 2 => io[2].ev = "read" /\ io[2].len = last.len
            /\ last.err = Nil <=> Len(io) = 2 /\ io[2].ok
            /\ last.err = Nil => last.buf = io[2].buf /\ last.n = Len(io[2].buf)

C7_Witness ==
    /\ last.op = "ReadRegBytes"
    /\ last.len = 2
    /\ last.err = Nil
    /\ last.buf = <<255, 0>>
    /\ last.n = 2
    /\ Len(IOs(last.tr)) = 2

(* C8: for a response [b0, b1], ReadRegU16LE returns (b1 << 8) | b0, the   *)
(* value ReadRegU16BE returns for that response with its bytes exchanged.  *)
C8_ByteSwapLaw ==
    last.op = "ReadRegU16LE" /\ last.err = Nil =>
        LET d == IOs(last.tr)[2].buf
            be == ReadRegU16BE(dev.kind, last.reg, TRUE, TRUE, mem).val
        IN  /\ last.val = d[2] * 256 + d[1]
            /\ last.val = (be % 256) * 256 + (be \div 256)

C8_Witness ==
    /\ last.op = "ReadRegU16LE"
    /\ last.err = Nil
    /\ IOs(last.tr)[2].buf = <<128, 255>>
    /\ last.val = 65408

(* C9: for a response [b0, b1], ReadRegS16BE returns the two's-complement  *)
(* signed reading of the pattern (b0 << 8) | b1 that ReadRegU16BE returns: *)
(* the value - 65536 when b0 >= 0x80, the same value otherwise.            *)
C9_SignLaw ==
    last.op = "ReadRegS16BE" /\ last.err = Nil =>
        LET d == IOs(last.tr)[2].buf
            u == ReadRegU16BE(dev.kind, last.reg, TRUE, TRUE, mem).val
        IN  /\ u = d[1] * 256 + d[2]
            /\ last.val = IF d[1] >= 128 THEN u - 65536 ELSE u

C9_Witness ==
    /\ last.op = "ReadRegS16BE"
    /\ last.err = Nil
    /\ IOs(last.tr)[2].buf = <<255, 0>>
    /\ last.val = -256

(* C10, as claimed: a Read, Write or register helper call that returns an  *)
(* error has not invoked the debug hook at all.                            *)
C10_HookOnSuccessOnly ==
    last.op \notin {"none", "New", "Close"} /\ last.err # Nil => Hooks(last.tr) = <<>>

(* C10, amended: the debug hook is never invoked after a failure.  A call  *)
(* rejected for its payload size invokes no hook and makes no OS call; a   *)
(* Read whose OS read fails invokes no hook; in every call no hook         *)
(* invocation follows a failed OS read or write.                           *)
C10_NoHookAfterFailure ==
    /\ last.err \in {"maxlen", "minlen"} => last.tr = <<>>
    /\ last.op = "Read" /\ last.err # Nil => Hooks(last.tr) = <<>>
    /\ \A i \in 1..Len(last.tr) : \A j \in 1..Len(last.tr) :
           i < j /\ IsIO(last.tr[i]) /\ ~last.tr[i].ok => ~IsHook(last.tr[j])

C10_Witness ==
    /\ last.op = "WriteRegU16BE"
    /\ last.err = "EIO"
    /\ Len(last.tr) = 2
    /\ IsHook(last.tr[1])
    /\ last.tr[2].ev = "write" /\ ~last.tr[2].ok

(* C11: a New / NewI2C that returns a failure, also one whose device file *)
(* was opened and whose address-select ioctl was rejected, has closed the  *)
(* file it opened: the number of open bus descriptors is the same after    *)
(* the call as before it.                                                  *)
C11_NoLeakOnFailedNew == [][New /\ last'.err # Nil => fds' = fds]_vars

====
